---- MODULE Spec2Model ----
(***************************************************************************)
(* Model of datasketch.lsh_trie.MinHashLSHTrie: the banded trie index.    *)
(* The object's fields are h, b, r, hashranges, root and keys.  A trie    *)
(* node is a record: a dict node carries its mapping in kids, a posting   *)
(* list carries its keys in items.  Floats (threshold, weights) are kept  *)
(* in tenths, so 1.0 is One.                                               *)
(***************************************************************************)
EXTENDS Integers, Sequences, FiniteSets, TLC

VARIABLES state, args, h, b, r, hashranges, root, keys, inserted, attempted, ncalls, last,
          ins, gen

vars == <<state, args, h, b, r, hashranges, root, keys, inserted, attempted, ncalls, last,
          ins, gen>>

\* ---------------------------------------------------------------- bounds
MaxInserts == 2

\* ------------------------------------------------------- input alphabets
One == 10
None == <<>>
Thresholds == {-1, 0, 9, 10, 15}
WeightPairs == {<<5, 5>>, <<4, 6>>, <<0, 10>>, <<3, 3>>, <<7, 7>>, <<12, -2>>}
NumPerms == {1, 2, 4, 128}
ParamsSet == {None, <<2, 2>>, <<1, 2>>, <<0, 2>>, <<2, -1>>, <<4, 1>>, <<3, 2>>, <<5, 50>>}
IndexParams == {None, <<2, 2>>, <<1, 2>>, <<0, 2>>, <<2, -1>>}
IndexArgs == [threshold |-> 9, num_perm |-> 4, weights |-> <<5, 5>>]
Keys == {"A", "B"}
Signatures == {<<1, 2, 3, 4>>, <<1, 2, 9, 9>>, <<9, 9, 9, 9>>, <<3, 4, 1, 2>>,
               <<1, 9, 3, 4>>, <<0, 1, 0, 1>>, <<1, 2, 3>>, <<1, 2, 3, 4, 5>>}

Range(s) == {s[i] : i \in DOMAIN s}

\* every list that enumerates the set S once: list(set) has no fixed order
ListsOf(S) == {s \in [1..Cardinality(S) -> S] : Range(s) = S}

\* ------------------------------------------------------------ trie nodes
Dict(m) == [kind |-> "dict", kids |-> m, items |-> <<>>]
List(l) == [kind |-> "list", kids |-> <<>>, items |-> l]
EmptyDict == Dict(<<>>)

\* ------------------------------------------------------------ constructor
\* datasketch.lsh._optimal_param: some (b, r) with b >= 1, r >= 1, b*r <= num_perm
OptimalParams(num_perm) ==
    UNION {{<<bb, rr>> : rr \in 1..(num_perm \div bb)} : bb \in 1..num_perm}

\* [(i*r, (i+1)*r) for i in range(b)], 1-indexed
HashRanges(bb, rr) == [j \in 1..(IF bb > 0 THEN bb ELSE 0) |-> <<(j - 1) * rr, j * rr>>]

Failed(err) == [ok |-> FALSE, err |-> err, b |-> 0, r |-> 0, hashranges |-> <<>>]

\* variant: rejects params whose product equals num_perm
Ctor_RejectEqual(threshold, num_perm, weights, params, opt) ==
    IF threshold > One \/ threshold < 0 \/ num_perm < 2
       \/ (\E i \in DOMAIN weights : weights[i] < 0 \/ weights[i] > One)
       \/ weights[1] + weights[2] # One
    THEN Failed("invalid")
    ELSE IF params # None
         THEN IF params[1] * params[2] >= num_perm
              THEN Failed("The product of b and r in params")
              ELSE [ok |-> TRUE, err |-> "", b |-> params[1], r |-> params[2],
                    hashranges |-> HashRanges(params[1], params[2])]
         ELSE [ok |-> TRUE, err |-> "", b |-> opt[1], r |-> opt[2],
               hashranges |-> HashRanges(opt[1], opt[2])]

\* __init__: opt is the pair the optimizer returns when params is None
Ctor(threshold, num_perm, weights, params, opt) ==
    IF threshold > One \/ threshold < 0 THEN Failed("threshold must be in [0.0, 1.0]")
    ELSE IF num_perm < 2 THEN Failed("Too few permutation functions")
    ELSE IF \E i \in DOMAIN weights : weights[i] < 0 \/ weights[i] > One
         THEN Failed("Weight must be in [0.0, 1.0]")
    ELSE IF weights[1] + weights[2] # One THEN Failed("Weights must sum to 1.0")
    ELSE IF params # None
         THEN IF params[1] * params[2] > num_perm
              THEN Failed("The product of b and r in params")
              ELSE [ok |-> TRUE, err |-> "", b |-> params[1], r |-> params[2],
                    hashranges |-> HashRanges(params[1], params[2])]
         ELSE [ok |-> TRUE, err |-> "", b |-> opt[1], r |-> opt[2],
               hashranges |-> HashRanges(opt[1], opt[2])]

NoCall == [op |-> "init", key |-> "", minhash |-> <<>>, check |-> FALSE,
           out |-> "ok", ret |-> <<>>, found |-> FALSE]

\* no insert call is in progress
NoInsert == [pc |-> "idle", key |-> "", minhash |-> <<>>, paths |-> <<>>, i |-> 1,
             had |-> FALSE]

\* no generator object exists
NoGenerator == [pc |-> "none", call |-> "", iterable |-> TRUE, items |-> <<>>,
                arg |-> <<>>, m |-> <<>>, k |-> 1, out |-> <<>>, pulls |-> 0,
                err |-> ""]

InitNew ==
    /\ state = "new"
    /\ args = [threshold |-> 0, num_perm |-> 0, weights |-> <<0, 0>>, params |-> None]
    /\ h = 0 /\ b = 0 /\ r = 0 /\ hashranges = <<>>
    /\ root = EmptyDict /\ keys = {} /\ inserted = {} /\ attempted = {} /\ ncalls = 0
    /\ ins = NoInsert /\ gen = NoGenerator
    /\ last = NoCall

Construct(threshold, num_perm, weights, params, opt) ==
    LET c == Ctor(threshold, num_perm, weights, params, opt) IN
    /\ state = "new"
    /\ args' = [threshold |-> threshold, num_perm |-> num_perm,
                weights |-> weights, params |-> params]
    /\ state' = IF c.ok THEN "ready" ELSE "failed"
    /\ h' = IF c.ok THEN num_perm ELSE 0
    /\ b' = c.b /\ r' = c.r /\ hashranges' = c.hashranges
    /\ last' = [NoCall EXCEPT !.op = "construct",
                              !.out = IF c.ok THEN "ok" ELSE "ValueError"]
    /\ UNCHANGED <<root, keys, inserted, attempted, ncalls, ins, gen>>

NextCtor ==
    \E threshold \in Thresholds, num_perm \in NumPerms, weights \in WeightPairs,
       params \in ParamsSet :
        \E opt \in (IF params = None THEN OptimalParams(num_perm) ELSE {<<1, 1>>}) :
            Construct(threshold, num_perm, weights, params, opt)

SpecCtor == InitNew /\ [][NextCtor]_vars

\* the index right after a successful construction
Init ==
    \E params \in IndexParams :
      \E opt \in (IF params = None THEN OptimalParams(IndexArgs.num_perm) ELSE {<<1, 1>>}) :
        LET c == Ctor(IndexArgs.threshold, IndexArgs.num_perm, IndexArgs.weights,
                      params, opt) IN
        /\ c.ok
        /\ state = "ready"
        /\ args = [threshold |-> IndexArgs.threshold, num_perm |-> IndexArgs.num_perm,
                   weights |-> IndexArgs.weights, params |-> params]
        /\ h = IndexArgs.num_perm /\ b = c.b /\ r = c.r /\ hashranges = c.hashranges
        /\ root = EmptyDict /\ keys = {} /\ inserted = {} /\ attempted = {} /\ ncalls = 0
        /\ ins = NoInsert /\ gen = NoGenerator
        /\ last = [NoCall EXCEPT !.op = "construct"]

\* ------------------------------------------------------------------ paths
\* Python's s[start:end] on a list (0-based, negative offsets from the end)
PySlice(s, start, end) ==
    LET n == Len(s)
        norm(x) == IF x < 0 THEN (IF x + n < 0 THEN 0 ELSE x + n)
                   ELSE (IF x > n THEN n ELSE x)
        lo == norm(start)
        hi == norm(end)
    IN IF lo >= hi THEN <<>> ELSE SubSeq(s, lo + 1, hi)

\* variant: every band's path starts with the same label
Paths_SameBand(minhash) ==
    [i \in DOMAIN hashranges |->
        <<0>> \o PySlice(minhash, hashranges[i][1], hashranges[i][2])]

\* [tuple([i, ] + hashvalues[start:end]) for i, (start, end) in enumerate(hashranges)]
Paths(minhash) ==
    [i \in DOMAIN hashranges |->
        <<i - 1>> \o PySlice(minhash, hashranges[i][1], hashranges[i][2])]

\* ----------------------------------------------------------------- insert
\* variant: the leaf is always replaced by a fresh posting list
RECURSIVE InsertPath_Overwrite(_, _, _)
InsertPath_Overwrite(cur, path, key) ==
    IF Len(path) = 1
    THEN Dict((path[1] :> List(<<key>>)) @@ cur.kids)
    ELSE LET node == path[1]
             child == IF node \notin DOMAIN cur.kids THEN EmptyDict ELSE cur.kids[node]
         IN Dict((node :> InsertPath_Overwrite(child, Tail(path), key)) @@ cur.kids)

\* variant: an interior node is always replaced by a fresh dict
RECURSIVE InsertPath_FreshInterior(_, _, _)
InsertPath_FreshInterior(cur, path, key) ==
    IF Len(path) = 1
    THEN LET leaf == path[1] IN
         IF leaf \in DOMAIN cur.kids
         THEN Dict([cur.kids EXCEPT ![leaf] = List(Append(@.items, key))])
         ELSE Dict((leaf :> List(<<key>>)) @@ cur.kids)
    ELSE Dict((path[1] :> InsertPath_FreshInterior(EmptyDict, Tail(path), key)) @@ cur.kids)

\* variant: a key already in the posting list is not appended again
RECURSIVE InsertPath_Dedup(_, _, _)
InsertPath_Dedup(cur, path, key) ==
    IF Len(path) = 1
    THEN LET leaf == path[1] IN
         IF leaf \in DOMAIN cur.kids
         THEN IF key \in Range(cur.kids[leaf].items) THEN cur
              ELSE Dict([cur.kids EXCEPT ![leaf] = List(Append(@.items, key))])
         ELSE Dict((leaf :> List(<<key>>)) @@ cur.kids)
    ELSE LET node == path[1]
             child == IF node \notin DOMAIN cur.kids THEN EmptyDict ELSE cur.kids[node]
         IN Dict((node :> InsertPath_Dedup(child, Tail(path), key)) @@ cur.kids)

\* one pass of the body of "for path in paths", from the dict cur downwards
RECURSIVE InsertPath(_, _, _)
InsertPath(cur, path, key) ==
    IF Len(path) = 1
    THEN LET leaf == path[1] IN
         IF leaf \in DOMAIN cur.kids
         THEN Dict([cur.kids EXCEPT ![leaf] = List(Append(@.items, key))])
         ELSE Dict((leaf :> List(<<key>>)) @@ cur.kids)
    ELSE LET node == path[1]
             child == IF node \notin DOMAIN cur.kids THEN EmptyDict ELSE cur.kids[node]
         IN Dict((node :> InsertPath(child, Tail(path), key)) @@ cur.kids)

\* the trie after paths[i..] have been written in order
RECURSIVE InsertPaths(_, _, _, _)
InsertPaths(rt, paths, i, key) ==
    IF i > Len(paths) THEN rt
    ELSE InsertPaths(InsertPath(rt, paths[i], key), paths, i + 1, key)

\* variant: the duplicate check runs after the band paths were written
InsertCall_CheckAfterWrite(key, minhash, check) ==
    IF Len(minhash) # h
    THEN [out |-> "AssertionError", root |-> root, keys |-> keys]
    ELSE IF check /\ key \in keys
    THEN [out |-> "AssertionError",
          root |-> InsertPaths(root, Paths(minhash), 1, key), keys |-> keys]
    ELSE [out |-> "ok", root |-> InsertPaths(root, Paths(minhash), 1, key),
          keys |-> keys \cup {key}]

\* variant: the key is registered before the checks
InsertCall_EarlyKeyAdd(key, minhash, check) ==
    IF Len(minhash) # h
    THEN [out |-> "AssertionError", root |-> root, keys |-> keys \cup {key}]
    ELSE IF check /\ key \in keys
    THEN [out |-> "AssertionError", root |-> root, keys |-> keys]
    ELSE [out |-> "ok", root |-> InsertPaths(root, Paths(minhash), 1, key),
          keys |-> keys \cup {key}]

\* variant: the key is never registered
InsertCall_NoKeyAdd(key, minhash, check) ==
    IF Len(minhash) # h
    THEN [out |-> "AssertionError", root |-> root, keys |-> keys]
    ELSE IF check /\ key \in keys
    THEN [out |-> "AssertionError", root |-> root, keys |-> keys]
    ELSE [out |-> "ok", root |-> InsertPaths(root, Paths(minhash), 1, key),
          keys |-> keys]

\* variant: no length check
InsertCall_NoLenCheck(key, minhash, check) ==
    IF check /\ key \in keys
    THEN [out |-> "AssertionError", root |-> root, keys |-> keys]
    ELSE [out |-> "ok", root |-> InsertPaths(root, Paths(minhash), 1, key),
          keys |-> keys \cup {key}]

\* insert(key, minhash, check_duplication): outcome and the fields it leaves
InsertCall(key, minhash, check) ==
    IF Len(minhash) # h
    THEN [out |-> "AssertionError", root |-> root, keys |-> keys]
    ELSE IF check /\ key \in keys
    THEN [out |-> "AssertionError", root |-> root, keys |-> keys]
    ELSE [out |-> "ok", root |-> InsertPaths(root, Paths(minhash), 1, key),
          keys |-> keys \cup {key}]

Insert(key, minhash, check) ==
    LET c == InsertCall(key, minhash, check) IN
    /\ state = "ready"
    /\ ncalls < MaxInserts
    /\ ncalls' = ncalls + 1
    /\ attempted' = attempted \cup {key}
    /\ root' = c.root
    /\ keys' = c.keys
    /\ inserted' = IF c.out = "ok" THEN inserted \cup {<<key, minhash>>} ELSE inserted
    /\ last' = [NoCall EXCEPT !.op = "insert", !.key = key, !.minhash = minhash,
                              !.check = check, !.out = c.out]
    /\ UNCHANGED <<state, args, h, b, r, hashranges, ins, gen>>

\* ------------------------------------------------- insert, statement-wise
\* lines 90-96: the two asserts, then paths
InsertBegin(key, minhash, check) ==
    /\ state = "ready"
    /\ ins.pc = "idle"
    /\ ncalls < MaxInserts
    /\ ncalls' = ncalls + 1
    /\ attempted' = attempted \cup {key}
    /\ IF Len(minhash) # h \/ (check /\ key \in keys)
       THEN /\ ins' = ins
            /\ last' = [NoCall EXCEPT !.op = "insert", !.key = key, !.minhash = minhash,
                                      !.check = check, !.out = "AssertionError"]
       ELSE /\ ins' = [pc |-> "bands", key |-> key, minhash |-> minhash,
                       paths |-> Paths(minhash), i |-> 1, had |-> (key \in keys)]
            /\ last' = [NoCall EXCEPT !.op = "insert", !.key = key, !.minhash = minhash,
                                      !.check = check, !.out = "running"]
    /\ UNCHANGED <<state, args, h, b, r, hashranges, root, keys, inserted, gen>>

\* variant: the key is registered while the band paths are written
InsertBand_AddsKey ==
    /\ ins.pc = "bands"
    /\ ins.i <= Len(ins.paths)
    /\ root' = InsertPath(root, ins.paths[ins.i], ins.key)
    /\ keys' = keys \cup {ins.key}
    /\ ins' = [ins EXCEPT !.i = @ + 1]
    /\ UNCHANGED <<state, args, h, b, r, hashranges, inserted, attempted,
                   ncalls, last, gen>>

\* lines 97-109: one iteration of "for path in paths"
InsertBand ==
    /\ ins.pc = "bands"
    /\ ins.i <= Len(ins.paths)
    /\ root' = InsertPath(root, ins.paths[ins.i], ins.key)
    /\ ins' = [ins EXCEPT !.i = @ + 1]
    /\ UNCHANGED <<state, args, h, b, r, hashranges, keys, inserted, attempted,
                   ncalls, last, gen>>

\* line 110: self.keys.add(key), and the call returns
InsertEnd ==
    /\ ins.pc = "bands"
    /\ ins.i > Len(ins.paths)
    /\ keys' = keys \cup {ins.key}
    /\ inserted' = inserted \cup {<<ins.key, ins.minhash>>}
    /\ last' = [last EXCEPT !.out = "ok"]
    /\ ins' = NoInsert
    /\ UNCHANGED <<state, args, h, b, r, hashranges, root, attempted, ncalls, gen>>

NextSteps ==
    \/ \E key \in Keys, minhash \in Signatures, check \in BOOLEAN :
           InsertBegin(key, minhash, check)
    \/ InsertBand
    \/ InsertEnd

SpecSteps == Init /\ [][NextSteps]_vars

\* ------------------------------------------------------------------ query
\* the walk of one path: the posting list it ends at, <<>> on a miss
RECURSIVE Lookup(_, _)
Lookup(cur, path) ==
    IF Len(path) = 1
    THEN IF path[1] \notin DOMAIN cur.kids THEN <<>> ELSE cur.kids[path[1]].items
    ELSE IF path[1] \in DOMAIN cur.kids
         THEN Lookup(cur.kids[path[1]], Tail(path))
         ELSE <<>>

\* candidates after paths[i..] have been walked: candidates.update(cur[leaf])
RECURSIVE Candidates(_, _, _, _)
Candidates(rt, paths, i, candidates) ==
    IF i > Len(paths) THEN candidates
    ELSE Candidates(rt, paths, i + 1, candidates \cup Range(Lookup(rt, paths[i])))

\* variant: the posting lists are concatenated instead of united
RECURSIVE Extend(_, _, _, _)
Extend(rt, paths, i, candidates) ==
    IF i > Len(paths) THEN candidates
    ELSE Extend(rt, paths, i + 1, candidates \o Lookup(rt, paths[i]))

QueryResults_Extend(rt, minhash) == {Extend(rt, Paths(minhash), 1, <<>>)}

\* the lists query(minhash) may return on the trie rt: list(candidates)
QueryResults(rt, minhash) == ListsOf(Candidates(rt, Paths(minhash), 1, {}))

\* variant: the walk creates the nodes it misses
RECURSIVE TouchPath(_, _)
TouchPath(cur, path) ==
    IF Len(path) = 1
    THEN IF path[1] \in DOMAIN cur.kids THEN cur
         ELSE Dict((path[1] :> List(<<>>)) @@ cur.kids)
    ELSE LET node == path[1]
             child == IF node \notin DOMAIN cur.kids THEN EmptyDict ELSE cur.kids[node]
         IN Dict((node :> TouchPath(child, Tail(path))) @@ cur.kids)

RECURSIVE TouchPaths(_, _, _)
TouchPaths(rt, paths, i) ==
    IF i > Len(paths) THEN rt ELSE TouchPaths(TouchPath(rt, paths[i]), paths, i + 1)

Query_Creating(minhash) ==
    /\ state = "ready"
    /\ IF Len(minhash) # h
       THEN /\ last' = [NoCall EXCEPT !.op = "query", !.minhash = minhash,
                                      !.out = "AssertionError"]
            /\ root' = root
       ELSE /\ \E res \in QueryResults(root, minhash) :
                  last' = [NoCall EXCEPT !.op = "query", !.minhash = minhash, !.ret = res]
            /\ root' = TouchPaths(root, Paths(minhash), 1)
    /\ UNCHANGED <<state, args, h, b, r, hashranges, keys, inserted, attempted, ncalls, ins, gen>>

Query(minhash) ==
    /\ state = "ready"
    /\ IF Len(minhash) # h
       THEN last' = [NoCall EXCEPT !.op = "query", !.minhash = minhash,
                                   !.out = "AssertionError"]
       ELSE \E res \in QueryResults(root, minhash) :
                last' = [NoCall EXCEPT !.op = "query", !.minhash = minhash, !.ret = res]
    /\ UNCHANGED <<state, args, h, b, r, hashranges, root, keys, inserted, attempted, ncalls, ins, gen>>

\* __contains__
Contains(key) ==
    /\ state = "ready"
    /\ last' = [NoCall EXCEPT !.op = "contains", !.key = key, !.found = (key \in keys)]
    /\ UNCHANGED <<state, args, h, b, r, hashranges, root, keys, inserted, attempted, ncalls, ins, gen>>

Next ==
    \/ \E key \in Keys, minhash \in Signatures, check \in BOOLEAN :
           Insert(key, minhash, check)
    \/ \E minhash \in Signatures : Query(minhash)
    \/ \E key \in Keys : Contains(key)

Spec == Init /\ [][Next]_vars

\* ================================================================ bulk.py
MaxItems == 3
MersennePrime == 61
MaxHash == 60

\* raw items: each is the set of the hashes of its elements
RawItems == {{1}, {2, 5}, {3, 4}}

\* the values given as b: lists of raw items, and one value that is no iterable
ItemsArgs ==
    {[iterable |-> TRUE, elems |-> e] :
        e \in UNION {[1..n -> RawItems] : n \in 0..MaxItems}}
    \cup {[iterable |-> FALSE, elems |-> <<>>]}

\* datasketch.minhash.MinHash with num_perm permutations (a, b) and a seed
MinHash(num_perm, seed) ==
    [num_perm |-> num_perm, seed |-> seed,
     permutations |-> [j \in 1..num_perm |-> <<2 * j + seed, j>>],
     hashvalues |-> [j \in 1..num_perm |-> MaxHash]]

\* MinHash(): the default configuration
DefaultMinHash == MinHash(128, 1)

Templates == {None, MinHash(32, 1), MinHash(4, 7)}

Min(S) == CHOOSE x \in S : \A y \in S : x <= y

\* MinHash._compute_hashvalues(b, permutations, hashvalues)
ComputeHashvalues(item, permutations, hashvalues) ==
    [j \in DOMAIN hashvalues |->
        Min({hashvalues[j]} \cup
            {(permutations[j][1] * e + permutations[j][2]) % MersennePrime : e \in item})]

\* compute_minhash(b, m)
ComputeMinhash(item, m) ==
    [num_perm |-> m.num_perm, seed |-> m.seed, permutations |-> m.permutations,
     hashvalues |-> ComputeHashvalues(item, m.permutations, m.hashvalues)]

\* the generator object compute_minhashes_generator(b, m) returns: no
\* statement of the body has run
NewGenerator(items, m, call) ==
    [NoGenerator EXCEPT !.pc = "created", !.call = call, !.iterable = items.iterable,
                        !.items = items.elems, !.arg = m, !.m = m]

\* variant: each signature is computed from the previous one
GenNext_ReusesState(g) ==
    LET m == IF g.pc = "created" /\ g.m = None THEN DefaultMinHash ELSE g.m IN
    IF g.pc = "created" /\ ~g.iterable
    THEN [g EXCEPT !.pc = "raised", !.err = "AssertionError", !.m = m,
                   !.pulls = @ + 1]
    ELSE IF g.k <= Len(g.items)
    THEN [g EXCEPT !.pc = "suspended", !.m = ComputeMinhash(g.items[g.k], m),
                   !.k = @ + 1, !.pulls = @ + 1,
                   !.out = Append(@, ComputeMinhash(g.items[g.k], m))]
    ELSE [g EXCEPT !.pc = "done", !.m = m, !.pulls = @ + 1]

\* next(generator): the body runs from where it stands to the next yield
GenNext(g) ==
    LET m == IF g.pc = "created" /\ g.m = None THEN DefaultMinHash ELSE g.m IN
    IF g.pc = "created" /\ ~g.iterable
    THEN [g EXCEPT !.pc = "raised", !.err = "AssertionError", !.m = m,
                   !.pulls = @ + 1]
    ELSE IF g.k <= Len(g.items)
    THEN [g EXCEPT !.pc = "suspended", !.m = m, !.k = @ + 1, !.pulls = @ + 1,
                   !.out = Append(@, ComputeMinhash(g.items[g.k], m))]
    ELSE [g EXCEPT !.pc = "done", !.m = m, !.pulls = @ + 1]

\* list(generator): pulls until the generator stops or raises
RECURSIVE Drain(_)
Drain(g) == IF g.pc \in {"done", "raised"} THEN g ELSE Drain(GenNext(g))

InitBulk == InitNew

CallGenerator(items, m) ==
    /\ gen.pc = "none"
    /\ gen' = NewGenerator(items, m, "generator")
    /\ UNCHANGED <<state, args, h, b, r, hashranges, root, keys, inserted, attempted,
                   ncalls, last, ins>>

Pull ==
    /\ gen.call = "generator"
    /\ gen.pc \in {"created", "suspended"}
    /\ gen' = GenNext(gen)
    /\ UNCHANGED <<state, args, h, b, r, hashranges, root, keys, inserted, attempted,
                   ncalls, last, ins>>

\* compute_minhashes(b, m)
ComputeMinhashes(items, m) ==
    /\ gen.pc = "none"
    /\ gen' = Drain(NewGenerator(items, m, "list"))
    /\ UNCHANGED <<state, args, h, b, r, hashranges, root, keys, inserted, attempted,
                   ncalls, last, ins>>

NextBulk ==
    \/ \E items \in ItemsArgs, m \in Templates : CallGenerator(items, m)
    \/ Pull
    \/ \E items \in ItemsArgs, m \in Templates : ComputeMinhashes(items, m)

SpecBulk == InitBulk /\ [][NextBulk]_vars

\* ================================================================= claims
NoDuplicates(s) == \A i, j \in DOMAIN s : i # j => s[i] # s[j]

\* what a flat bucket map keyed by (band index, r-tuple) returns for S
FlatBucketResult(S) ==
    {e[1] : e \in {x \in inserted :
        \E i \in 0..(b - 1) :
            PySlice(x[2], i * r, (i + 1) * r) = PySlice(S, i * r, (i + 1) * r)}}

\* C1: after any sequence of successful inserts, query(S) returns exactly the
\* keys of the inserted signatures that agree with S on all rows of at least
\* one band, the same band on both sides; with b = 2, r = 2 and only
\* insert("A", [1,2,3,4]), query([1,2,9,9]) = {"A"} and query([9,9,9,9]) = {}.
C1_QueryIsFlatBuckets ==
    /\ \A S \in Signatures : Len(S) = h =>
           QueryResults(root, S) = ListsOf(FlatBucketResult(S))
    /\ (last.op = "query" /\ last.out = "ok") =>
           Range(last.ret) = FlatBucketResult(last.minhash)
    /\ (b = 2 /\ r = 2 /\ inserted = {<<"A", <<1, 2, 3, 4>>>>}) =>
           /\ QueryResults(root, <<1, 2, 9, 9>>) = {<<"A">>}
           /\ QueryResults(root, <<9, 9, 9, 9>>) = {<<>>}

C1_Witness ==
    /\ b = 2 /\ r = 2 /\ inserted = {<<"A", <<1, 2, 3, 4>>>>}
    /\ last.op = "query" /\ last.minhash = <<1, 2, 9, 9>> /\ last.ret = <<"A">>

\* C2: after a successful insert(key, S), query(S) returns a collection that
\* contains key, for every accepted index and every later state.
C2_RoundTrip ==
    \A e \in inserted : \A res \in QueryResults(root, e[2]) : e[1] \in Range(res)

\* C3: insert(key, S2, check_duplication=True) of a key already in the key set
\* fails and leaves the trie and the key set exactly as they were.
C3_DuplicateRejected ==
    [][(last'.op = "insert" /\ last'.check /\ last'.key \in keys) =>
          (last'.out = "AssertionError" /\ root' = root /\ keys' = keys)]_vars

C3_Witness ==
    /\ last.op = "insert" /\ last.check /\ last.out = "AssertionError"
    /\ Len(last.minhash) = h /\ last.key \in keys
    /\ <<last.key, last.minhash>> \notin inserted
    /\ root # EmptyDict

\* C4: contains(key) is true exactly when some insert of key has succeeded;
\* a key whose inserts all failed is not a member; membership is never lost.
C4_MembershipConsistent ==
    /\ [](/\ \A k \in Keys : (k \in keys) <=> (\E e \in inserted : e[1] = k)
          /\ last.op = "contains" =>
                 (last.found <=> (\E e \in inserted : e[1] = last.key)))
    /\ [][\A k \in Keys : k \in keys => k \in keys']_vars

C4_Witness ==
    /\ last.op = "contains" /\ ~last.found /\ last.key \in attempted
    /\ keys # {}

\* C5: a key that query(S) returns is returned by query(S) after any further
\* insert call, successful or failed.
C5_NoEviction ==
    [][\/ root' = root
       \/ \A S \in Signatures :
             Candidates(root, Paths(S), 1, {}) \subseteq Candidates(root', Paths(S), 1, {})]_vars

C5_Witness ==
    /\ last.op = "insert" /\ last.out = "ok" /\ ncalls >= 2
    /\ \E e \in inserted :
          /\ e # <<last.key, last.minhash>>
          /\ e[2] = last.minhash
          /\ e[1] \in Candidates(root, Paths(e[2]), 1, {})

\* C6: query and contains leave the trie, the key set, b, r and hashranges
\* unchanged on a hit, a miss and a length failure; two queries with the
\* same signature and no insert in between return the same set of keys.
C6_ReadOnly ==
    [][(last'.op \in {"query", "contains"}) =>
          /\ root' = root /\ keys' = keys
          /\ b' = b /\ r' = r /\ h' = h /\ hashranges' = hashranges
          /\ (last.op = "query" /\ last'.op = "query" /\ last'.minhash = last.minhash)
                => (Range(last'.ret) = Range(last.ret) /\ last'.out = last.out)]_vars

C6_Witness ==
    /\ last.op = "query" /\ last.out = "ok" /\ last.ret = <<>>
    /\ \E i \in DOMAIN hashranges :
          LET path == Paths(last.minhash)[i] IN
          /\ Len(path) >= 3
          /\ path[1] \in DOMAIN root.kids
          /\ path[2] \in DOMAIN root.kids[path[1]].kids

\* C7: insert and query with len(S) # H fail and leave the trie and the key
\* set unchanged; with len(S) = H neither fails for a length reason.
C7_LengthMismatch ==
    [][(last'.op \in {"insert", "query"}) =>
          /\ Len(last'.minhash) # h =>
                /\ last'.out = "AssertionError"
                /\ root' = root /\ keys' = keys
                /\ \A S \in Signatures :
                       last'.key \notin keys =>
                           last'.key \notin Candidates(root', Paths(S), 1, {})
          /\ Len(last'.minhash) = h =>
                \/ last'.out = "ok"
                \/ last'.op = "insert" /\ last'.check /\ last'.key \in keys]_vars

C7_Witness ==
    /\ last.op = "insert" /\ last.out = "AssertionError"
    /\ Len(last.minhash) # h /\ last.key \notin keys /\ keys # {}

\* C10: the list query returns never holds a key twice, also when the key
\* matches in several bands or sits several times in one posting list.
C10_NoDuplicateKeys ==
    /\ \A S \in Signatures : \A res \in QueryResults(root, S) : NoDuplicates(res)
    /\ last.op = "query" => NoDuplicates(last.ret)

C10_Witness ==
    /\ last.op = "query" /\ last.ret # <<>>
    /\ Len(hashranges) >= 2
    /\ \A i \in DOMAIN hashranges :
          LET items == Lookup(root, Paths(last.minhash)[i]) IN
          /\ Len(items) >= 2
          /\ ~NoDuplicates(items)

C9_ParamsIgnoreThresholdAndWeights ==
    (state # "new" /\ args.params # None) =>
        \A threshold \in Thresholds, weights \in WeightPairs :
            LET c == Ctor(threshold, args.num_perm, weights, args.params, <<1, 1>>) IN
            /\ c.ok <=> state = "ready"
            /\ c.b = b /\ c.r = r /\ c.hashranges = hashranges

\* C14: during a successful insert the key enters the key set once, at the
\* final step and after all b band paths were written; while the bands are
\* being written a key that was not a member before is not a member.
C14_KeyAddedLast ==
    /\ [](ins.pc = "bands" /\ ~ins.had => ins.key \notin keys)
    /\ [][keys' # keys =>
             /\ ins.pc = "bands" /\ ins.i - 1 >= b /\ ins.i > Len(ins.paths)
             /\ ins'.pc = "idle" /\ last'.out = "ok"
             /\ keys' = keys \cup {ins.key}]_vars

C14_Witness ==
    /\ ins.pc = "bands" /\ ~ins.had /\ ins.key \notin keys
    /\ Len(ins.paths) >= 2 /\ ins.i = Len(ins.paths) + 1
    /\ \A i \in DOMAIN ins.paths : ins.key \in Range(Lookup(root, ins.paths[i]))

\* the label paths of all nodes below cur
RECURSIVE NodePaths(_)
NodePaths(cur) ==
    UNION {{<<x>>} \cup {<<x>> \o p : p \in NodePaths(cur.kids[x])} : x \in DOMAIN cur.kids}

\* the node a label path leads to
RECURSIVE NodeAt(_, _)
NodeAt(cur, path) ==
    IF Len(path) = 1 THEN cur.kids[path[1]] ELSE NodeAt(cur.kids[path[1]], Tail(path))

\* the band paths of all inserted signatures, and their non-empty prefixes
InsertedPaths == UNION {Range(Paths(e[2])) : e \in inserted}
InsertedPrefixes == UNION {{SubSeq(p, 1, n) : n \in 1..Len(p)} : p \in InsertedPaths}

\* C13: hashranges has exactly b pairs (i*r, (i+1)*r), disjoint, contiguous,
\* each of length r, covering [0, b*r) inside [0, H), for every accepted index.
C13_HashRanges ==
    state = "ready" =>
        /\ Len(hashranges) = b
        /\ \A i \in DOMAIN hashranges :
              /\ hashranges[i] = <<(i - 1) * r, i * r>>
              /\ hashranges[i][2] - hashranges[i][1] = r
              /\ 0 <= hashranges[i][1] /\ hashranges[i][1] <= hashranges[i][2]
              /\ hashranges[i][2] <= h
              /\ i > 1 => hashranges[i][1] = hashranges[i - 1][2]
        /\ b >= 1 => (hashranges[1][1] = 0 /\ hashranges[b][2] = b * r)

\* C15: the trie has one node per (band, row-value prefix) of the inserted
\* signatures and one posting list per (band, full tuple); an insert whose
\* band path exists adds no node in that band and appends to the posting list.
C15_PrefixSharing ==
    /\ [](/\ NodePaths(root) = InsertedPrefixes
          /\ \A p \in NodePaths(root) :
                NodeAt(root, p).kind = "list" <=> p \in InsertedPaths)
    /\ [][(last'.op = "insert" /\ last'.out = "ok") =>
             \A i \in DOMAIN hashranges :
                LET path == Paths(last'.minhash)[i] IN
                path \in NodePaths(root) =>
                   /\ {p \in NodePaths(root') : p[1] = i - 1}
                         = {p \in NodePaths(root) : p[1] = i - 1}
                   /\ Lookup(root', path) = Append(Lookup(root, path), last'.key)]_vars

C15_Witness ==
    /\ last.op = "insert" /\ last.out = "ok" /\ b >= 2 /\ r >= 2
    /\ Cardinality(inserted) = 2
    /\ \E e \in inserted : \E i, j \in DOMAIN hashranges :
          /\ e[2] # last.minhash
          /\ Paths(e[2])[i] = Paths(last.minhash)[i]
          /\ Paths(e[2])[j] # Paths(last.minhash)[j]
          /\ Paths(e[2])[j][2] = Paths(last.minhash)[j][2]

\* C16: insert with check_duplication=False succeeds for a member key; it
\* appends the key once more to the posting list of each band path, posting
\* lists keep insertion order without deduplication, the key set holds it once.
C16_UncheckedInsertAppends ==
    [][(last'.op = "insert" /\ ~last'.check /\ Len(last'.minhash) = h) =>
          /\ last'.out = "ok"
          /\ keys' = keys \cup {last'.key}
          /\ \A i \in DOMAIN hashranges :
                LET path == Paths(last'.minhash)[i] IN
                Lookup(root', path) = Append(Lookup(root, path), last'.key)]_vars

C16_Witness ==
    /\ last.op = "insert" /\ ~last.check /\ last.out = "ok"
    /\ keys = {last.key} /\ b >= 2
    /\ \A i \in DOMAIN hashranges :
          Lookup(root, Paths(last.minhash)[i]) = <<last.key, last.key>>

\* C17: between operations every key of a posting list is in the key set,
\* every member of the key set is in a posting list of each band, and query
\* returns no key for which contains is false.
C17_KeysMatchPostings ==
    /\ \A p \in NodePaths(root) : Range(NodeAt(root, p).items) \subseteq keys
    /\ \A k \in keys : \A i \in 0..(b - 1) :
          \E p \in NodePaths(root) :
              p[1] = i /\ NodeAt(root, p).kind = "list" /\ k \in Range(NodeAt(root, p).items)
    /\ \A S \in Signatures : Candidates(root, Paths(S), 1, {}) \subseteq keys
    /\ last.op = "query" => Range(last.ret) \subseteq keys

C17_Witness ==
    /\ last.op = "query" /\ Len(last.ret) = 1 /\ Cardinality(keys) = 2 /\ b >= 2

\* C18: every posting list ends a path of exactly r+1 labels and every node
\* on a shorter path is a mapping, whatever the row values are.
C18_TrieShape ==
    \A p \in NodePaths(root) :
        /\ NodeAt(root, p).kind = "list" => Len(p) = r + 1
        /\ Len(p) < r + 1 => NodeAt(root, p).kind = "dict"
        /\ NodeAt(root, p).kind = "dict" => NodeAt(root, p).items = <<>>
        /\ NodeAt(root, p).kind = "list" => NodeAt(root, p).kids = <<>>

\* the template the signatures are computed with
EffectiveTemplate(m) == IF m = None THEN DefaultMinHash ELSE m

\* C11: for n items, compute_minhashes returns n signatures, the k-th being
\* compute_minhash(items[k], template); the generator yields the same
\* signatures in the same order, one per pull, and then terminates.
C11_BatchInOrder ==
    gen.iterable =>
        /\ \A k \in DOMAIN gen.out :
              /\ gen.out[k] = ComputeMinhash(gen.items[k], EffectiveTemplate(gen.arg))
              /\ Len(gen.out[k].hashvalues) = EffectiveTemplate(gen.arg).num_perm
        /\ gen.err = ""
        /\ gen.pc = "suspended" => (Len(gen.out) = gen.pulls /\ gen.pulls <= Len(gen.items))
        /\ gen.pc = "created" => (gen.out = <<>> /\ gen.pulls = 0)
        /\ gen.pc = "done" =>
              (Len(gen.out) = Len(gen.items) /\ gen.pulls = Len(gen.items) + 1)
        /\ gen.call = "list" => gen.pc = "done"

C11_Witness ==
    /\ gen.call = "list" /\ gen.pc = "done" /\ Len(gen.out) = 3
    /\ gen.arg = MinHash(32, 1)
    /\ gen.out[1] # gen.out[2] /\ gen.out[2] # gen.out[3] /\ gen.out[1] # gen.out[3]

\* C12: a non-iterable items argument makes the call fail, compute_minhashes
\* and compute_minhashes_generator alike, before any pull and any signature.
C12_NonIterableRejectedAtCall ==
    (gen.pc # "none" /\ ~gen.iterable) =>
        /\ gen.pc = "raised" /\ gen.err = "AssertionError"
        /\ gen.out = <<>>
        /\ gen.call = "generator" => gen.pulls = 0
====
